---- MODULE Spec2Model ----
(***************************************************************************)
(* The tag store of registry/storage/tagstore.go: Tag, Get, Untag, All and *)
(* the concurrent reverse scan Lookup, over a path-addressed storage       *)
(* driver wrapped by the fault-injecting driver of the test file.          *)
(***************************************************************************)
EXTENDS Integers, Sequences, FiniteSets, TLC

\* ------------------------------------------------------------------ bounds
\* Tags the clients of Spec operate on are 1..MaxTags.
MaxTags == 2
\* Number of tags of the pre-populated repository of SpecBig (more than the
\* limiter admits at once).
BigTags == 11
\* Tag calls of SpecConc that may be between their two writes at once.
MaxInFlight == 2
\* limiter := make(chan struct{}, 10)
LimiterCap == 10

Tags == 1..MaxTags
AllTags == 1..(IF BigTags > MaxTags THEN BigTags ELSE MaxTags)

\* ------------------------------------------------------------------ values
DigestA == "sha256:a"
DigestB == "sha256:b"
ValidDigests == {DigestA, DigestB}
\* distribution.Descriptor{} has the empty digest; "sha256:zz" is malformed.
EmptyDigest == ""
BadDigest == "sha256:zz"
DigestInputs == ValidDigests \cup {EmptyDigest, BadDigest}

NoLink == "<absent>"

ErrNil == "nil"
PathNotFound == "PathNotFoundError"
BackendError == "BackendError"
ErrRepositoryUnknown == "ErrRepositoryUnknown"
ErrTagUnknown == "ErrTagUnknown"
ErrDigestInvalid == "ErrDigestInvalid"

VARIABLES
  link,            \* current-tag link file of each tag: a digest or NoLink
  index,           \* tag-revision index entries: set of <<tag, digest>>
  tagsDir,         \* the repository's tag directory exists
  GetContentError, \* mockInMemory.GetContentError
  tagCall,         \* the Tag calls between their two writes
  lastMut,         \* per tag: what the last successful Tag or Untag of it did
  ret,             \* result of the last completed Tag/Get/Untag/All call
  lkPc,            \* Lookup: "idle", "spawn", "select", "returned"
  lkDesc,          \* Lookup: desc.Digest
  allTags,         \* Lookup: allTags
  lkAllErr,        \* Lookup: err of ts.All
  lkI,             \* Lookup: index of the next tag of the range loop
  worker,          \* Lookup: per tag, the state of its goroutine
  limiter,         \* Lookup: number of tokens in the limiter channel
  errChan,         \* Lookup: buffered contents of errChan
  tagChan,         \* Lookup: buffered contents of tagChan
  closer,          \* Lookup: "none", "waiting", "done" (tagChan closed)
  errClosed,       \* Lookup: errChan closed
  cancelled,       \* Lookup: cancel() of the derived context was called
  parentDone,      \* the context passed to Lookup is cancelled
  tags,            \* Lookup: the local slice tags
  retTags,         \* Lookup: the returned slice
  retErr,          \* Lookup: returned error
  lkDirty,         \* links were written or deleted since this Lookup started
  readSeen         \* Lookup: per tag, what readlink returned to its worker

lkVars == <<lkPc, lkDesc, allTags, lkAllErr, lkI, worker, limiter, errChan,
            tagChan, closer, errClosed, cancelled, tags, retTags, retErr,
            readSeen>>
vars == <<link, index, tagsDir, GetContentError, tagCall, lastMut, ret, lkPc,
          lkDesc, allTags, lkAllErr, lkI, worker, limiter, errChan, tagChan,
          closer, errClosed, cancelled, parentDone, tags, retTags, retErr,
          lkDirty, readSeen>>

\* ------------------------------------------------------------- path scheme
\* the entry of tag t in the repository's tag directory
TagPath(t) == <<"tags", t>>

\* path.Split(entry): the last element of the path
SplitFile(p) == p[Len(p)]

\* ------------------------------------------------------------------ driver
\* Sequence of the elements of a set of integers, ascending.
RECURSIVE SortedSeq(_)
SortedSeq(S) ==
  IF S = {} THEN <<>>
  ELSE LET m == CHOOSE x \in S : \A y \in S : x <= y
       IN <<m>> \o SortedSeq(S \ {m})

\* driver.List of the tag directory: the entries under it, or PathNotFound.
DriverList(inj) ==
  IF inj # ErrNil THEN [entries |-> <<>>, err |-> inj]
  ELSE IF ~tagsDir THEN [entries |-> <<>>, err |-> PathNotFound]
  ELSE LET present == {t \in AllTags : link[t] # NoLink}
           s == SortedSeq(present)
       IN [entries |-> [i \in 1..Len(s) |-> TagPath(s[i])], err |-> ErrNil]

\* mockInMemory.GetContent of the current link of t
GetContent(t) ==
  IF GetContentError # ErrNil THEN [content |-> NoLink, err |-> GetContentError]
  ELSE IF link[t] = NoLink THEN [content |-> NoLink, err |-> PathNotFound]
  ELSE [content |-> link[t], err |-> ErrNil]

\* blobStore.readlink: the digest stored at the current link of t
readlink(t) ==
  LET c == GetContent(t)
  IN [digest |-> c.content, err |-> c.err]

\* digest validation of the index-entry path
ValidDigest(d) == d \in ValidDigests

\* driver.Delete of the tag path of t: removes what is stored under it
DriverDelete(t, inj) ==
  IF inj # ErrNil THEN [link |-> link, err |-> inj]
  ELSE IF link[t] = NoLink THEN [link |-> link, err |-> PathNotFound]
  ELSE [link |-> [link EXCEPT ![t] = NoLink], err |-> ErrNil]

\* lbs.linkBlob(ctx, desc): validates the digest while computing the index
\* entry path, then writes the index entry link
linkBlob(t, d, inj) ==
  IF ~ValidDigest(d) THEN [index |-> index, err |-> ErrDigestInvalid]
  ELSE IF inj # ErrNil THEN [index |-> index, err |-> inj]
  ELSE [index |-> index \cup {<<t, d>>}, err |-> ErrNil]

\* ---------------------------------------------------------------- tag store
AllResult_NotFoundIsEmpty(l) ==
  IF l.err # ErrNil
  THEN IF l.err = PathNotFound
       THEN [tags |-> <<>>, err |-> ErrNil]
       ELSE [tags |-> <<>>, err |-> l.err]
  ELSE [tags |-> [i \in 1..Len(l.entries) |-> SplitFile(l.entries[i])],
        err |-> ErrNil]

AllResult_SkipsFirst(l) ==
  IF l.err # ErrNil
  THEN IF l.err = PathNotFound
       THEN [tags |-> <<>>, err |-> ErrRepositoryUnknown]
       ELSE [tags |-> <<>>, err |-> l.err]
  ELSE [tags |-> [i \in 1..(Len(l.entries) - 1) |-> SplitFile(l.entries[i + 1])],
        err |-> ErrNil]

\* All: the switch on the error of driver.List and the loop over the entries
AllResult(l) ==
  IF l.err # ErrNil
  THEN IF l.err = PathNotFound
       THEN [tags |-> <<>>, err |-> ErrRepositoryUnknown]
       ELSE [tags |-> <<>>, err |-> l.err]
  ELSE [tags |-> [i \in 1..Len(l.entries) |-> SplitFile(l.entries[i])],
        err |-> ErrNil]

GetResult_RawNotFound(t, r) ==
  IF r.err # ErrNil
  THEN [digest |-> EmptyDigest, err |-> r.err, errTag |-> 0]
  ELSE [digest |-> r.digest, err |-> ErrNil, errTag |-> 0]

\* Get: the switch on the error of readlink; errTag is ErrTagUnknown.Tag
GetResult(t, r) ==
  IF r.err # ErrNil
  THEN IF r.err = PathNotFound
       THEN [digest |-> EmptyDigest, err |-> ErrTagUnknown, errTag |-> t]
       ELSE [digest |-> EmptyDigest, err |-> r.err, errTag |-> 0]
  ELSE [digest |-> r.digest, err |-> ErrNil, errTag |-> 0]

UntagResult_NotFoundIsError(delErr) == delErr

\* Untag: the switch on the error of driver.Delete
UntagResult(delErr) ==
  IF delErr # ErrNil
  THEN IF delErr = PathNotFound THEN ErrNil ELSE delErr
  ELSE ErrNil

TagProceeds_Always(err) == TRUE

\* Tag: "if err := lbs.linkBlob(ctx, desc); err != nil { return err }"
TagProceeds(err) == err = ErrNil

TagCurrentLink_KeepsOld(old, d) == IF old = NoLink THEN d ELSE old

\* Tag: "return ts.blobStore.link(ctx, currentPath, desc.Digest)": the value
\* the current link holds after the write, given the value it held
TagCurrentLink(old, d) == d

\* A Lookup call has started: its result is compared with the store it saw.
LookupActive == lkPc # "idle"

\* Tag(t, desc) as a whole: the store it leaves and the error it returns.
\* inj1 and inj2 are the outcomes the driver gives its two writes.
TagResult(t, d, inj1, inj2) ==
  LET r == linkBlob(t, d, inj1)
  IN IF ~TagProceeds(r.err)
     THEN [index |-> r.index, link |-> link, tagsDir |-> tagsDir, err |-> r.err]
     ELSE IF inj2 # ErrNil
     THEN [index |-> r.index, link |-> link, tagsDir |-> tagsDir, err |-> inj2]
     ELSE [index |-> r.index,
           link |-> [link EXCEPT ![t] = TagCurrentLink(link[t], d)],
           tagsDir |-> TRUE, err |-> ErrNil]

TagCall(t, d, inj1, inj2) ==
  /\ tagCall = {}
  /\ LET r == TagResult(t, d, inj1, inj2)
     IN /\ index' = r.index
        /\ link' = r.link
        /\ tagsDir' = r.tagsDir
        /\ lkDirty' = (lkDirty \/ (LookupActive /\ r.link # link))
  /\ UNCHANGED <<GetContentError, tagCall, parentDone>>
  /\ UNCHANGED lkVars

\* Tag seen by concurrent callers, first step: up to and including the write
\* of the index entry. tagCall holds the calls that are between their two
\* writes (at most MaxInFlight of them, no two with the same arguments).
TagBeginStep(t, d, inj) ==
  /\ Cardinality(tagCall) < MaxInFlight
  /\ <<t, d>> \notin tagCall
  /\ LET r == linkBlob(t, d, inj)
     IN /\ index' = r.index
        /\ tagCall' = IF TagProceeds(r.err) THEN tagCall \cup {<<t, d>>}
                       ELSE tagCall
  /\ UNCHANGED <<link, tagsDir, GetContentError, parentDone, lkDirty>>
  /\ UNCHANGED lkVars

\* Tag seen by concurrent callers, second step of the call c: the write of
\* the current link, and the return.
TagEndStep(c, inj) ==
  /\ c \in tagCall
  /\ LET t == c[1]
         d == c[2]
     IN IF inj # ErrNil
        THEN UNCHANGED <<link, tagsDir, lkDirty>>
        ELSE /\ link' = [link EXCEPT ![t] = TagCurrentLink(link[t], d)]
             /\ tagsDir' = TRUE
             /\ lkDirty' = (lkDirty \/ LookupActive)
  /\ tagCall' = tagCall \ {c}
  /\ UNCHANGED <<index, GetContentError, parentDone>>
  /\ UNCHANGED lkVars

UntagCall_DropsIndex(t, inj) ==
  /\ LET r == DriverDelete(t, inj)
     IN /\ link' = r.link
        /\ index' = IF r.err = ErrNil THEN {e \in index : e[1] # t} ELSE index
        /\ lkDirty' = (lkDirty \/ (LookupActive /\ r.link # link))
  /\ UNCHANGED <<tagsDir, GetContentError, tagCall, parentDone>>
  /\ UNCHANGED lkVars

\* Untag(t): driver.Delete of the tag path; the error is UntagResult's
UntagCall(t, inj) ==
  /\ LET r == DriverDelete(t, inj)
     IN /\ link' = r.link
        /\ lkDirty' = (lkDirty \/ (LookupActive /\ r.link # link))
  /\ UNCHANGED <<index, tagsDir, GetContentError, tagCall, parentDone>>
  /\ UNCHANGED lkVars

\* the test sets env.mockDriver.GetContentError
SetGetContentError(e) ==
  /\ GetContentError # e
  /\ GetContentError' = e
  /\ UNCHANGED <<link, index, tagsDir, tagCall, lastMut, ret, parentDone, lkDirty>>
  /\ UNCHANGED lkVars

\* ------------------------------------------------- observed tag store calls
\* ret and lastMut record what the caller of the tag store sees.
\* ret.preMut of a Tag call is "retry" when the call before it was the same
\* Tag call and was given a failure of its second write.
NoRet == [op |-> "none", tag |-> 0, digest |-> EmptyDigest, err |-> ErrNil,
          errTag |-> 0, tags |-> <<>>, changed |-> FALSE, preLink |-> NoLink,
          preMut |-> "none", inj |-> ErrNil]

StoreChanged == <<link, index, tagsDir>>' # <<link, index, tagsDir>>

Tag(t, d, inj1, inj2) ==
  /\ TagCall(t, d, inj1, inj2)
  /\ ret' = [NoRet EXCEPT !.op = "Tag", !.tag = t, !.digest = d,
               !.err = TagResult(t, d, inj1, inj2).err,
               !.changed = StoreChanged, !.preLink = link[t],
               !.preMut = IF /\ ret.op = "Tag" /\ ret.inj = "link"
                             /\ ret.tag = t /\ ret.digest = d
                          THEN "retry" ELSE "none",
               !.inj = IF inj1 # ErrNil THEN "index" ELSE
                       IF inj2 # ErrNil THEN "link" ELSE ErrNil]
  /\ lastMut' = [lastMut EXCEPT ![t] =
                   IF ret'.err = ErrNil THEN d ELSE lastMut[t]]

Untag(t, inj) ==
  /\ UntagCall(t, inj)
  /\ ret' = [NoRet EXCEPT !.op = "Untag", !.tag = t,
               !.err = UntagResult(DriverDelete(t, inj).err),
               !.changed = StoreChanged, !.preLink = link[t],
               !.preMut = lastMut[t], !.inj = inj]
  /\ lastMut' = [lastMut EXCEPT ![t] =
                   IF ret'.err = ErrNil THEN "untagged" ELSE lastMut[t]]

Get(t) ==
  /\ LET g == GetResult(t, readlink(t))
     IN ret' = [NoRet EXCEPT !.op = "Get", !.tag = t, !.digest = g.digest,
                  !.err = g.err, !.errTag = g.errTag, !.preLink = link[t],
                  !.inj = GetContentError]
  /\ UNCHANGED <<link, index, tagsDir, GetContentError, tagCall, lastMut,
                 parentDone, lkDirty>>
  /\ UNCHANGED lkVars

All(inj) ==
  /\ LET a == AllResult(DriverList(inj))
     IN ret' = [NoRet EXCEPT !.op = "All", !.tags = a.tags, !.err = a.err,
                  !.inj = inj]
  /\ UNCHANGED <<link, index, tagsDir, GetContentError, tagCall, lastMut,
                 parentDone, lkDirty>>
  /\ UNCHANGED lkVars

\* ------------------------------------------------------------------ Lookup
WorkerDone == {"skipped", "done"}

\* nothing read yet
NotRead == "<unread>"

Range(s) == {s[i] : i \in 1..Len(s)}

CtxDone_Never == FALSE

CtxDone_OwnCancelOnly == cancelled

\* ctx.Err() != nil, and <-ctx.Done() ready, of the context derived by
\* context.WithCancel(ctx)
CtxDone == cancelled \/ parentDone

LookupAborts_OnRepositoryUnknown(err) == err # ErrNil

\* Lookup: the switch on the error of ts.All
LookupAborts(err) == err \notin {ErrNil, ErrRepositoryUnknown}

LimiterAdmits_OneMore(n) == n <= LimiterCap

\* "limiter <- struct{}{}" can proceed: the channel buffer is not full
LimiterAdmits(n) == n < LimiterCap

WorkerOutcome_AnyDigest(r, d) ==
  IF r.err # ErrNil
  THEN IF r.err = PathNotFound THEN "notfound" ELSE "failed"
  ELSE "match"

WorkerOutcome_NotFoundFails(r, d) ==
  IF r.err # ErrNil THEN "failed"
  ELSE IF r.digest = d THEN "match" ELSE "nomatch"

\* worker: what the result r of readlink means for desc.Digest d
WorkerOutcome(r, d) ==
  IF r.err # ErrNil
  THEN IF r.err = PathNotFound THEN "notfound" ELSE "failed"
  ELSE IF r.digest = d THEN "match" ELSE "nomatch"

\* worker: the select on ctx.Done() before a send
WorkerSends(done) == ~done

ChanCap_Zero(n) == 0

\* errChan := make(chan error, len(allTags)) and tagChan := make(chan string,
\* len(allTags)): the number of values a channel holds before a send blocks
ChanCap(n) == n

\* No goroutine of an earlier Lookup call is still running.
LookupQuiescent ==
  /\ lkPc \in {"idle", "returned"}
  /\ closer # "waiting"
  /\ \A t \in AllTags : worker[t] \in {"none"} \cup WorkerDone

\* Lookup from its entry to the range loop: ts.All, the channels, the context.
LookupStart(d, inj) ==
  /\ LookupQuiescent
  /\ LET a == AllResult(DriverList(inj))
     IN /\ lkAllErr' = a.err
        /\ IF LookupAborts(a.err)
           THEN /\ lkPc' = "returned"
                /\ retErr' = a.err
                /\ allTags' = <<>>
                /\ closer' = "none"
           ELSE /\ lkPc' = IF Len(a.tags) = 0 THEN "select" ELSE "spawn"
                /\ retErr' = ErrNil
                /\ allTags' = a.tags
                /\ closer' = IF Len(a.tags) = 0 THEN "waiting" ELSE "none"
  /\ lkDesc' = d
  /\ lkI' = 1
  /\ worker' = [t \in AllTags |-> "none"]
  /\ limiter' = 0
  /\ errChan' = <<>>
  /\ tagChan' = <<>>
  /\ errClosed' = FALSE
  /\ cancelled' = FALSE
  /\ tags' = <<>>
  /\ retTags' = <<>>
  /\ lkDirty' = FALSE
  /\ readSeen' = [t \in AllTags |-> NotRead]
  /\ UNCHANGED <<link, index, tagsDir, GetContentError, tagCall, lastMut, ret,
                 parentDone>>

\* One iteration of the range loop: take a limiter slot, start the goroutine;
\* after the last one, start the goroutine that closes tagChan.
Spawn ==
  /\ lkPc = "spawn"
  /\ LimiterAdmits(limiter)
  /\ limiter' = limiter + 1
  /\ worker' = [worker EXCEPT ![allTags[lkI]] = "start"]
  /\ lkI' = lkI + 1
  /\ IF lkI = Len(allTags)
     THEN lkPc' = "select" /\ closer' = "waiting"
     ELSE UNCHANGED <<lkPc, closer>>
  /\ UNCHANGED <<link, index, tagsDir, GetContentError, tagCall, lastMut, ret,
                 lkDesc, allTags, lkAllErr, errChan, tagChan, errClosed,
                 cancelled, parentDone, tags, retTags, retErr, lkDirty, readSeen>>

\* worker of tag t: the check of ctx.Err(), then the call of readlink
WorkerBegin(t) ==
  /\ worker[t] = "start"
  /\ IF CtxDone
     THEN /\ worker' = [worker EXCEPT ![t] = "skipped"]
          /\ limiter' = limiter - 1
     ELSE /\ worker' = [worker EXCEPT ![t] = "reading"]
          /\ UNCHANGED limiter
  /\ UNCHANGED <<link, index, tagsDir, GetContentError, tagCall, lastMut, ret,
                 lkPc, lkDesc, allTags, lkAllErr, lkI, errChan, tagChan,
                 closer, errClosed, cancelled, parentDone, tags, retTags,
                 retErr, lkDirty, readSeen>>

\* worker of tag t: readlink returns; the send, unless the context is done;
\* the deferred release of the limiter slot and wg.Done()
WorkerEnd(t) ==
  /\ worker[t] = "reading"
  /\ LET r == readlink(t)
         o == WorkerOutcome(r, lkDesc)
     IN /\ worker' = [worker EXCEPT ![t] = "done"]
        /\ readSeen' = [readSeen EXCEPT ![t] =
                          IF r.err # ErrNil THEN r.err ELSE r.digest]
        /\ errChan' = IF o = "failed" /\ WorkerSends(CtxDone)
                      THEN Append(errChan, r.err) ELSE errChan
        /\ tagChan' = IF o = "match" /\ WorkerSends(CtxDone)
                      THEN Append(tagChan, t) ELSE tagChan
        \* a send waits while its channel is full
        /\ Len(errChan') <= ChanCap(Len(allTags))
        /\ Len(tagChan') <= ChanCap(Len(allTags))
  /\ limiter' = limiter - 1
  /\ UNCHANGED <<link, index, tagsDir, GetContentError, tagCall, lastMut, ret,
                 lkPc, lkDesc, allTags, lkAllErr, lkI, closer, errClosed,
                 cancelled, parentDone, tags, retTags, retErr, lkDirty>>

Closer_NoWait ==
  /\ closer = "waiting"
  /\ closer' = "done"
  /\ UNCHANGED <<link, index, tagsDir, GetContentError, tagCall, lastMut, ret,
                 lkPc, lkDesc, allTags, lkAllErr, lkI, worker, limiter,
                 errChan, tagChan, errClosed, cancelled, parentDone, tags,
                 retTags, retErr, lkDirty, readSeen>>

\* the goroutine "wg.Wait(); close(tagChan)"
Closer ==
  /\ closer = "waiting"
  /\ \A t \in Range(allTags) : worker[t] \in WorkerDone
  /\ closer' = "done"
  /\ UNCHANGED <<link, index, tagsDir, GetContentError, tagCall, lastMut, ret,
                 lkPc, lkDesc, allTags, lkAllErr, lkI, worker, limiter,
                 errChan, tagChan, errClosed, cancelled, parentDone, tags,
                 retTags, retErr, lkDirty, readSeen>>

\* select: "case err, workRemaining := <-errChan" with a value: cancel(),
\* return nil, err
MainRecvErr ==
  /\ lkPc = "select"
  /\ errChan # <<>>
  /\ errChan' = Tail(errChan)
  /\ cancelled' = TRUE
  /\ retTags' = <<>>
  /\ retErr' = Head(errChan)
  /\ lkPc' = "returned"
  /\ UNCHANGED <<link, index, tagsDir, GetContentError, tagCall, lastMut, ret,
                 lkDesc, allTags, lkAllErr, lkI, worker, limiter, tagChan,
                 closer, errClosed, parentDone, tags, lkDirty, readSeen>>

\* select: "case tag, workRemaining := <-tagChan" with a value
MainRecvTag ==
  /\ lkPc = "select"
  /\ tagChan # <<>>
  /\ tagChan' = Tail(tagChan)
  /\ tags' = Append(tags, Head(tagChan))
  /\ UNCHANGED <<link, index, tagsDir, GetContentError, tagCall, lastMut, ret,
                 lkPc, lkDesc, allTags, lkAllErr, lkI, worker, limiter,
                 errChan, closer, errClosed, cancelled, parentDone, retTags,
                 retErr, lkDirty, readSeen>>

\* select: tagChan closed and drained: close(errChan), break, return tags, nil
\* (and the deferred cancel())
MainTagClosed ==
  /\ lkPc = "select"
  /\ tagChan = <<>>
  /\ closer = "done"
  /\ errClosed' = TRUE
  /\ cancelled' = TRUE
  /\ retTags' = tags
  /\ retErr' = ErrNil
  /\ lkPc' = "returned"
  /\ UNCHANGED <<link, index, tagsDir, GetContentError, tagCall, lastMut, ret,
                 lkDesc, allTags, lkAllErr, lkI, worker, limiter, errChan,
                 tagChan, closer, parentDone, tags, lkDirty, readSeen>>

\* ---------------------------------------------------------- specifications
InitLookup ==
  /\ lkPc = "idle"
  /\ lkDesc = DigestA
  /\ allTags = <<>>
  /\ lkAllErr = ErrNil
  /\ lkI = 1
  /\ worker = [t \in AllTags |-> "none"]
  /\ limiter = 0
  /\ errChan = <<>>
  /\ tagChan = <<>>
  /\ closer = "none"
  /\ errClosed = FALSE
  /\ cancelled = FALSE
  /\ tags = <<>>
  /\ retTags = <<>>
  /\ retErr = ErrNil
  /\ lkDirty = FALSE
  /\ readSeen = [t \in AllTags |-> NotRead]

\* A new repository: nothing stored.
Init ==
  /\ link = [t \in AllTags |-> NoLink]
  /\ index = {}
  /\ tagsDir = FALSE
  /\ GetContentError = ErrNil
  /\ tagCall = {}
  /\ lastMut = [t \in AllTags |-> "none"]
  /\ ret = NoRet
  /\ parentDone = FALSE
  /\ InitLookup

\* Lookup running while other clients tag and untag. The digests are
\* interchangeable, so the lookups are all of DigestA.
Next ==
  \/ \E t \in Tags, d \in ValidDigests :
       TagCall(t, d, ErrNil, ErrNil) /\ UNCHANGED <<lastMut, ret>>
  \/ \E t \in Tags : UntagCall(t, ErrNil) /\ UNCHANGED <<lastMut, ret>>
  \/ \E e \in {ErrNil, BackendError, PathNotFound} : SetGetContentError(e)
  \/ \E inj \in {ErrNil, BackendError} : LookupStart(DigestA, inj)
  \/ Spawn
  \/ \E t \in AllTags : WorkerBegin(t)
  \/ \E t \in AllTags : WorkerEnd(t)
  \/ Closer
  \/ MainRecvErr
  \/ MainRecvTag
  \/ MainTagClosed

Spec == Init /\ [][Next]_vars

\* One client calling the tag store, every driver call able to fail.
NextApi ==
  \/ \E t \in Tags, d \in DigestInputs :
       \/ Tag(t, d, ErrNil, ErrNil)
       \/ Tag(t, d, BackendError, ErrNil)
       \/ Tag(t, d, ErrNil, BackendError)
  \/ \E t \in Tags, inj \in {ErrNil, BackendError} : Untag(t, inj)
  \/ \E t \in Tags : Get(t)
  \/ \E inj \in {ErrNil, BackendError} : All(inj)
  \/ \E e \in {ErrNil, BackendError, PathNotFound} : SetGetContentError(e)

SpecApi == Init /\ [][NextApi]_vars

\* A repository of BigTags tags, tag 1 on DigestA and the others on DigestB,
\* whose reads all work.
InitBig ==
  /\ link = [t \in AllTags |->
               IF t > BigTags THEN NoLink
               ELSE IF t = 1 THEN DigestA ELSE DigestB]
  /\ index = {<<t, link[t]>> : t \in 1..BigTags}
  /\ tagsDir = TRUE
  /\ GetContentError = ErrNil
  /\ tagCall = {}
  /\ lastMut = [t \in AllTags |-> "none"]
  /\ ret = NoRet
  /\ parentDone = FALSE
  /\ InitLookup

\* (no read fails here, so errChan stays empty and MainRecvErr has no step)
NextBig ==
  \/ LookupStart(DigestA, ErrNil)
  \/ Spawn
  \/ \E t \in AllTags : WorkerBegin(t)
  \/ \E t \in AllTags : WorkerEnd(t)
  \/ Closer
  \/ MainRecvTag
  \/ MainTagClosed

SpecBig == InitBig /\ [][NextBig]_vars

\* Clients tagging and untagging concurrently: each Tag call is two driver
\* writes, and other calls run between them; every driver call may fail.
NextConc ==
  \/ \E t \in Tags, d \in DigestInputs, inj \in {ErrNil, BackendError} :
       TagBeginStep(t, d, inj) /\ UNCHANGED <<lastMut, ret>>
  \/ \E c \in tagCall, inj \in {ErrNil, BackendError} :
       TagEndStep(c, inj) /\ UNCHANGED <<lastMut, ret>>
  \/ \E t \in Tags, inj \in {ErrNil, BackendError} :
       UntagCall(t, inj) /\ UNCHANGED <<lastMut, ret>>

SpecConc == Init /\ [][NextConc]_vars

\* A repository some of whose tags are linked, as Tag and Untag calls leave
\* it; the reads work, fail or find nothing; the context passed to Lookup is
\* live or already cancelled.
InitCtx ==
  /\ link \in [AllTags -> ValidDigests \cup {NoLink}]
  /\ \A t \in AllTags \ Tags : link[t] = NoLink
  /\ index = {<<t, link[t]>> : t \in {u \in Tags : link[u] # NoLink}}
  /\ tagsDir = TRUE
  /\ GetContentError \in {ErrNil, BackendError, PathNotFound}
  /\ tagCall = {}
  /\ lastMut = [t \in AllTags |-> "none"]
  /\ ret = NoRet
  /\ parentDone \in BOOLEAN
  /\ InitLookup

\* Lookup calls alone, with the reads made to fail and to work again.
NextCtx ==
  \/ \E e \in {ErrNil, BackendError, PathNotFound} : SetGetContentError(e)
  \/ \E inj \in {ErrNil, BackendError} : LookupStart(DigestA, inj)
  \/ Spawn
  \/ \E t \in AllTags : WorkerBegin(t)
  \/ \E t \in AllTags : WorkerEnd(t)
  \/ Closer
  \/ MainRecvErr
  \/ MainRecvTag
  \/ MainTagClosed

SpecCtx == InitCtx /\ [][NextCtx]_vars

\* Lookup calls alone, on the repositories of SpecCtx and of SpecBig.
InitLive == InitCtx \/ InitBig

NextLive ==
  \/ \E inj \in {ErrNil, BackendError} : LookupStart(DigestA, inj)
  \/ Spawn
  \/ \E t \in AllTags : WorkerBegin(t)
  \/ \E t \in AllTags : WorkerEnd(t)
  \/ Closer
  \/ MainRecvErr
  \/ MainRecvTag
  \/ MainTagClosed

\* The Go scheduler runs every goroutine that can take a step: the range
\* loop and the read loop of Lookup, every worker (its backend read returns),
\* the goroutine that closes tagChan.
LookupFairness ==
  /\ WF_vars(Spawn)
  /\ WF_vars(MainRecvErr \/ MainRecvTag \/ MainTagClosed)
  /\ WF_vars(Closer)
  /\ \A t \in AllTags : WF_vars(WorkerBegin(t)) /\ WF_vars(WorkerEnd(t))

SpecLive == InitLive /\ [][NextLive]_vars /\ LookupFairness

\* ------------------------------------------------------------------ claims
NoDuplicates(s) == Cardinality(Range(s)) = Len(s)

LookupReturned == lkPc = "returned"

AllSucceeded == lkAllErr \in {ErrNil, ErrRepositoryUnknown}

\* C1: whenever a per-tag link read of a Lookup call failed with an error
\* other than path-not-found, the call returns that error and no tags.
C1_ReadErrorReturned ==
  (LookupReturned /\ \E t \in Range(allTags) : readSeen[t] = BackendError)
    => (retErr = BackendError /\ retTags = <<>>)

\* C2: a Lookup call during which no link was written or deleted and no
\* backend call failed returns nil and exactly the tags whose current link is
\* the digest looked up, each once.
C2_LookupExact ==
  (/\ LookupReturned
   /\ ~lkDirty
   /\ AllSucceeded
   /\ \A t \in Range(allTags) : readSeen[t] \in ValidDigests)
    => /\ retErr = ErrNil
       /\ Range(retTags) = {t \in AllTags : link[t] = lkDesc}
       /\ NoDuplicates(retTags)

C2_Witness ==
  /\ LookupReturned
  /\ ~lkDirty
  /\ AllSucceeded
  /\ \A t \in Range(allTags) : readSeen[t] \in ValidDigests
  /\ \E t \in Range(allTags) : link[t] = DigestB
  /\ \E t \in AllTags : link[t] = lkDesc /\ retTags = <<t>>

\* C3: at no time are more than 10 per-tag link reads of a Lookup call
\* outstanding.
C3_ReadsBounded ==
  Cardinality({t \in AllTags : worker[t] = "reading"}) <= 10

C3_Witness ==
  /\ lkPc = "spawn"
  /\ Len(allTags) > 10
  /\ Cardinality({t \in AllTags : worker[t] = "reading"}) = 10

\* C4: Get(t), its read not failing, returns the digest of the last successful
\* Tag of t when no successful Untag of t came after it.
C4_GetAfterTag ==
  (ret.op = "Get" /\ ret.inj = ErrNil /\ lastMut[ret.tag] \in ValidDigests)
    => (ret.err = ErrNil /\ ret.digest = lastMut[ret.tag])

C4_Witness ==
  /\ ret.op = "Get"
  /\ ret.inj = ErrNil
  /\ lastMut[ret.tag] = DigestB
  /\ ret.digest = DigestB
  /\ <<ret.tag, DigestA>> \in index

\* C5: Get(t) of a tag with no current link fails with ErrTagUnknown{t} unless
\* the read fails otherwise; Get never returns the driver's path-not-found
\* error, and returns any other read error as it is.
C5_GetUnknown ==
  ret.op = "Get" =>
    /\ ret.err # PathNotFound
    /\ ((link[ret.tag] = NoLink \/ lastMut[ret.tag] \in {"none", "untagged"})
          /\ ret.inj # BackendError)
         => (ret.err = ErrTagUnknown /\ ret.errTag = ret.tag)
    /\ ret.inj = BackendError => ret.err = BackendError

C5_Witness ==
  /\ ret.op = "Get"
  /\ lastMut[ret.tag] = "untagged"
  /\ ret.inj = ErrNil
  /\ ret.err = ErrTagUnknown
  /\ ret.errTag = ret.tag

\* C6: Untag(t) of a tag with no current link, the delete not failing
\* otherwise, returns nil and changes nothing in the store; Untag returns an
\* error exactly when the delete fails with an error other than
\* path-not-found.
C6_UntagIdempotent ==
  ret.op = "Untag" =>
    /\ (ret.preLink = NoLink /\ ret.inj = ErrNil)
         => (ret.err = ErrNil /\ ~ret.changed)
    /\ (ret.err # ErrNil) <=> (ret.inj = BackendError)
    /\ ret.err \in {ErrNil, BackendError}

C6_Witness ==
  /\ ret.op = "Untag"
  /\ ret.preMut = "untagged"
  /\ ret.preLink = NoLink
  /\ ret.err = ErrNil
  /\ ~ret.changed

\* C7: All, its listing not failing, returns exactly the tags that were
\* tagged and not untagged since, each once; it returns nil when there is
\* such a tag.
C7_AllExact ==
  (ret.op = "All" /\ ret.inj = ErrNil) =>
    /\ Range(ret.tags) = {t \in AllTags : lastMut[t] \in ValidDigests}
    /\ NoDuplicates(ret.tags)
    /\ ret.tags # <<>> => ret.err = ErrNil

C7_Witness ==
  /\ ret.op = "All"
  /\ ret.inj = ErrNil
  /\ ret.err = ErrNil
  /\ Len(ret.tags) = MaxTags - 1
  /\ \E t \in Tags : lastMut[t] = "untagged" /\ t \notin Range(ret.tags)

\* C8: a Lookup call in which a per-tag link read failed with path-not-found,
\* and none with another error, returns nil and exactly the tags whose read
\* returned the digest looked up.
C8_NotFoundOmitted ==
  (/\ LookupReturned
   /\ AllSucceeded
   /\ \E t \in Range(allTags) : readSeen[t] = PathNotFound
   /\ \A t \in Range(allTags) : readSeen[t] # BackendError)
    => /\ retErr = ErrNil
       /\ Range(retTags) = {t \in Range(allTags) : readSeen[t] = lkDesc}
       /\ NoDuplicates(retTags)

C8_Witness ==
  /\ LookupReturned
  /\ lkDirty
  /\ GetContentError = ErrNil
  /\ \E t \in Range(allTags) : readSeen[t] = PathNotFound /\ link[t] = NoLink
  /\ \E t \in Range(allTags) : readSeen[t] = lkDesc /\ retTags = <<t>>
  /\ retErr = ErrNil

\* C9: a Lookup call whose All reported ErrRepositoryUnknown returns no tags
\* and nil and started no worker; a call whose All failed otherwise returns
\* that error and no tags, and started no worker.
C9_LookupOnAllError ==
  /\ (LookupReturned /\ lkAllErr = ErrRepositoryUnknown)
       => /\ retErr = ErrNil
          /\ retTags = <<>>
          /\ \A t \in AllTags : worker[t] = "none"
  /\ (LookupReturned /\ lkAllErr = BackendError)
       => /\ retErr = BackendError
          /\ retTags = <<>>
          /\ \A t \in AllTags : worker[t] = "none"

C9_Witness ==
  /\ LookupReturned
  /\ lkAllErr = ErrRepositoryUnknown
  /\ ~tagsDir
  /\ retErr = ErrNil

\* C10: Tag(t, desc) with an empty or malformed digest returns an error and
\* changes nothing in the store.
C10_InvalidDigestRejected ==
  (ret.op = "Tag" /\ ret.digest \notin ValidDigests)
    => (ret.err # ErrNil /\ ~ret.changed)

C10_Witness ==
  /\ ret.op = "Tag"
  /\ ret.digest = EmptyDigest
  /\ ret.err = ErrDigestInvalid
  /\ link[ret.tag] = DigestA

\* C11: All on a repository whose tag directory does not exist returns no
\* tags and ErrRepositoryUnknown (neither the driver's path-not-found error
\* nor nil); a listing that fails in any other way returns that error as is.
C11_AllRepositoryUnknown ==
  ret.op = "All" =>
    /\ (ret.inj = ErrNil /\ ~tagsDir) =>
         (ret.err = ErrRepositoryUnknown /\ ret.tags = <<>>)
    /\ (ret.inj = BackendError) =>
         (ret.err = BackendError /\ ret.tags = <<>>)

C11_Witness ==
  /\ ret.op = "All"
  /\ ret.inj = ErrNil
  /\ ~tagsDir
  /\ ret.err = ErrRepositoryUnknown

UnitsFinished == \A t \in Range(allTags) : worker[t] \in WorkerDone

\* C14 as stated: Lookup returns, with tags or with a read error, only after
\* every scheduled unit has finished or stopped on cancellation.
C14_ReturnsAfterAllUnits == LookupReturned => UnitsFinished

\* C14: a Lookup call that returns a nil error returns after every scheduled
\* unit has finished and tagChan was closed; a call that returns a read
\* error has cancelled the context before returning, and waits for no unit.
C14_SuccessAfterAllUnits ==
  (LookupReturned /\ AllSucceeded) =>
     /\ cancelled
     /\ retErr = ErrNil => (UnitsFinished /\ closer = "done")

\* Lookup has returned a read error while a unit is still in its backend read
C14_Witness ==
  /\ LookupReturned
  /\ retErr = BackendError
  /\ lkAllErr = ErrNil
  /\ cancelled
  /\ \E t \in Range(allTags) : worker[t] = "reading"

\* a read error of this call has been sent on errChan
ErrorReported ==
  \/ errChan # <<>>
  \/ LookupReturned /\ AllSucceeded /\ retErr # ErrNil

\* C15 as stated: once a unit has reported a read error, no unit that has
\* not started its backend read yet starts it.
C15_NoReadAfterErrorReported ==
  [][ErrorReported =>
       \A t \in Range(allTags) :
         worker[t] \in {"none", "start"} => worker'[t] # "reading"]_vars

\* C15: once the read loop has received a read error and run cancel(), no
\* unit that has not started its backend read yet starts it: it sees the
\* context done and stops. (Between the report of the error and cancel()
\* units still start their reads.)
C15_NoReadAfterCancel ==
  [][cancelled =>
       \A t \in Range(allTags) :
         worker[t] \in {"none", "start"} => worker'[t] # "reading"]_vars

\* Lookup returned a read error, and a unit that had not started its read
\* stopped without reading
C15_Witness ==
  /\ LookupReturned
  /\ retErr = BackendError
  /\ lkAllErr = ErrNil
  /\ \E t \in Range(allTags) :
       /\ worker[t] = "skipped"
       /\ readSeen[t] = NotRead
       /\ link[t] # NoLink

\* C16: a Tag(t, D) call whose second write fails after the index entry was
\* written returns the backend error and leaves the current link of t as it
\* was, with the index entry (t, D) in place; when the same call is then
\* retried and succeeds, Get(t) returns D and (t, D) is an index entry.
C16_TagPartialFailure ==
  (ret.op = "Tag" /\ ret.digest \in ValidDigests) =>
     /\ ret.inj = "link" =>
          /\ ret.err = BackendError
          /\ link[ret.tag] = ret.preLink
          /\ <<ret.tag, ret.digest>> \in index
     /\ (ret.preMut = "retry" /\ ret.err = ErrNil) =>
          /\ <<ret.tag, ret.digest>> \in index
          /\ GetContentError = ErrNil =>
               GetResult(ret.tag, readlink(ret.tag)) =
                 [digest |-> ret.digest, err |-> ErrNil, errTag |-> 0]

\* the retry of a Tag call that failed on its second write has succeeded, on
\* a tag that held the other digest
C16_Witness ==
  /\ ret.op = "Tag"
  /\ ret.preMut = "retry"
  /\ ret.err = ErrNil
  /\ ret.preLink = DigestB
  /\ ret.digest = DigestA
  /\ link[ret.tag] = DigestA

\* C17: no worker sends on a closed channel: tagChan is closed only when
\* every worker has finished, errChan is closed only after tagChan was found
\* closed and drained, and a closed tagChan stays closed until the call is
\* over (it is closed once).
C17_NoSendOnClosed ==
  /\ [](/\ closer = "done" => UnitsFinished
        /\ errClosed => (closer = "done" /\ tagChan = <<>> /\ UnitsFinished))
  /\ [][(closer = "done" /\ closer' # "done") => LookupQuiescent]_vars

\* both channels closed after workers have sent on them
C17_Witness ==
  /\ errClosed
  /\ closer = "done"
  /\ retTags # <<>>
  /\ \E t \in Range(allTags) : readSeen[t] = BackendError

\* C18: with every runnable goroutine scheduled and every backend read
\* returning, a Lookup call always returns and all its workers and the
\* goroutine closing tagChan terminate, also when Lookup has returned early
\* with an error: no goroutine waits forever on limiter, errChan or tagChan.
C18_LookupTerminates == ~LookupQuiescent ~> LookupQuiescent

\* Lookup has returned a read error while one worker has not yet made its
\* cancellation check and the goroutine closing tagChan is still waiting
C18_Witness ==
  /\ LookupReturned
  /\ retErr = BackendError
  /\ lkAllErr = ErrNil
  /\ closer = "waiting"
  /\ \E t \in Range(allTags) : worker[t] = "start"

\* C19: with Tag and Untag calls running during a Lookup(D) call that
\* returns a nil error, every returned tag is in the listing All gave the
\* call, is returned once, and was read by its worker with D as its current
\* link, which the link held at the step of that read; no step of Lookup
\* writes or deletes anything in the store.
C19_LookupUnderWrites ==
  /\ []((LookupReturned /\ AllSucceeded /\ retErr = ErrNil) =>
          /\ NoDuplicates(retTags)
          /\ \A t \in Range(retTags) :
               t \in Range(allTags) /\ readSeen[t] = lkDesc)
  /\ [][/\ \A t \in AllTags :
             (readSeen'[t] # readSeen[t] /\ readSeen'[t] = lkDesc)
               => link[t] = lkDesc
        /\ lkVars' # lkVars => UNCHANGED <<link, index, tagsDir>>]_vars

\* Lookup returned a tag whose link was rewritten after its worker read it
C19_Witness ==
  /\ LookupReturned
  /\ retErr = ErrNil
  /\ lkDirty
  /\ \E t \in Range(retTags) : link[t] # lkDesc /\ readSeen[t] = lkDesc

\* C20: when the context passed to Lookup is already cancelled and All
\* succeeds with a non-empty listing, no worker reads a link or sends a tag
\* or an error, and Lookup returns no tags and a nil error (no cancellation
\* error).
C20_CancelledContext ==
  (parentDone /\ lkAllErr = ErrNil /\ allTags # <<>>) =>
     /\ \A t \in Range(allTags) :
          worker[t] \in {"none", "start", "skipped"} /\ readSeen[t] = NotRead
     /\ errChan = <<>>
     /\ tagChan = <<>>
     /\ LookupReturned => (retErr = ErrNil /\ retTags = <<>>)

\* Lookup has returned under a cancelled context; a listed tag whose link
\* holds the digest looked up, and whose read would work, was not read
C20_Witness ==
  /\ parentDone
  /\ LookupReturned
  /\ lkAllErr = ErrNil
  /\ retErr = ErrNil
  /\ retTags = <<>>
  /\ GetContentError = ErrNil
  /\ \E t \in Range(allTags) : link[t] = lkDesc /\ worker[t] = "skipped"

====
